---- MODULE Spec2Model ----
(***************************************************************************)
(* A model of the uart8250 crate (src/uart8250/src/uart.rs): the           *)
(* MmioUart8250 handle over a memory-mapped 8250/16550 register block.     *)
(* The handle holds no state of its own; all state lives in the registers. *)
(* Every method is modelled as a function on a machine record (the         *)
(* register block plus the list of accesses the method performed and its   *)
(* outcome), and every action is one complete call of one method.          *)
(***************************************************************************)
EXTENDS Integers, Sequences, FiniteSets, TLC

VARIABLES
    lcr,      \* Line Control register (offset 3)
    ier,      \* Interrupt Enable register (offset 1, DLAB clear)
    dll,      \* Divisor latch low byte (offset 0, DLAB set)
    dlh,      \* Divisor latch high byte (offset 1, DLAB set)
    thr,      \* Transmit holding register (offset 0 written, DLAB clear)
    rbr,      \* Receive buffer register (offset 0 read, DLAB clear)
    iir,      \* Interrupt Identification register (offset 2 read)
    fcr,      \* FIFO Control register (offset 2 written)
    mcr,      \* Modem Control register (offset 4)
    lsr,      \* Line Status register (offset 5, read-only)
    msr,      \* Modem Status register (offset 6, read-only)
    scratch,  \* Scratch register (offset 7)
    call,     \* the last method called and its arguments
    log,      \* the register accesses of the last call, in program order
    ret,      \* the outcome of the last call
    tasks     \* per caller, how far it is in a read-modify-write sequence

vars == <<lcr, ier, dll, dlh, thr, rbr, iir, fcr, mcr, lsr, msr, scratch,
          call, log, ret, tasks>>

Byte == 0..255

-----------------------------------------------------------------------------
(* u8 bit operators of the source: &, |, ^, ! and >>.                      *)

RECURSIVE BitAnd(_, _)
BitAnd(a, b) ==
    IF a = 0 \/ b = 0 THEN 0
    ELSE (a % 2) * (b % 2) + 2 * BitAnd(a \div 2, b \div 2)

RECURSIVE BitOr(_, _)
BitOr(a, b) ==
    IF a = 0 THEN b
    ELSE IF b = 0 THEN a
    ELSE (IF a % 2 = 1 \/ b % 2 = 1 THEN 1 ELSE 0)
         + 2 * BitOr(a \div 2, b \div 2)

RECURSIVE BitXor(_, _)
BitXor(a, b) ==
    IF a = 0 THEN b
    ELSE IF b = 0 THEN a
    ELSE ((a + b) % 2) + 2 * BitXor(a \div 2, b \div 2)

BitNot(a) == 255 - a

\* x as u8: the truncating cast
AsU8(x) == x % 256

\* bit i of byte v
Bit(v, i) == (v \div (2 ^ i)) % 2

-----------------------------------------------------------------------------
(* The register block: eight byte-wide registers at consecutive offsets.   *)

THR_RBR_DLL == 0
IER_DLH == 1
IIR_FCR == 2
LCR == 3
MCR == 4
LSR == 5
MSR == 6
SCRATCH == 7

\* outcomes of a call
Unit == [kind |-> "unit", v |-> 0, e |-> "-"]
Panic == [kind |-> "panic", v |-> 0, e |-> "-"]
None == [kind |-> "none", v |-> 0, e |-> "-"]
SomeByte(b) == [kind |-> "some", v |-> b, e |-> "-"]
SomeEnum(s) == [kind |-> "some", v |-> 0, e |-> s]
Val(b) == [kind |-> "val", v |-> b, e |-> "-"]
Enum(s) == [kind |-> "val", v |-> 0, e |-> s]
Bool(b) == [kind |-> "bool", v |-> IF b THEN 1 ELSE 0, e |-> "-"]

\* the machine a call starts on: the registers as they are, nothing accessed
Cur ==
    [lcr |-> lcr, ier |-> ier, dll |-> dll, dlh |-> dlh, thr |-> thr,
     rbr |-> rbr, iir |-> iir, fcr |-> fcr, mcr |-> mcr, lsr |-> lsr,
     msr |-> msr, scratch |-> scratch, log |-> <<>>, ret |-> Unit]

\* DLAB, bit 7 of Line Control, as the register block sees it
Dlab(m) == m.lcr >= 128

\* the byte a read of the register at offset off yields
RegValue(m, off) ==
    CASE off = THR_RBR_DLL -> IF Dlab(m) THEN m.dll ELSE m.rbr
      [] off = IER_DLH -> IF Dlab(m) THEN m.dlh ELSE m.ier
      [] off = IIR_FCR -> m.iir
      [] off = LCR -> m.lcr
      [] off = MCR -> m.mcr
      [] off = LSR -> m.lsr
      [] off = MSR -> m.msr
      [] off = SCRATCH -> m.scratch

Access(k, off, v, m) == [k |-> k, off |-> off, v |-> v, dlab |-> Dlab(m)]

\* reading the Interrupt Identification register resets a pending
\* Transmitter Holding Register Empty cause
IirAfterRead(b) ==
    IF BitAnd(b, 15) = 2 THEN BitOr(BitAnd(b, 240), 1) ELSE b

\* reg.<off>.read(): one volatile read; the value is RegValue(m, off)
RegRead(m, off) ==
    LET m1 == [m EXCEPT !.log = Append(@, Access("r", off, RegValue(m, off), m))]
    IN  IF off = IIR_FCR THEN [m1 EXCEPT !.iir = IirAfterRead(@)] ELSE m1

\* reg.<off>.write(v): one volatile write
RegWrite(m, off, v) ==
    LET m1 == [m EXCEPT !.log = Append(@, Access("w", off, v, m))]
    IN  CASE off = THR_RBR_DLL ->
               IF Dlab(m) THEN [m1 EXCEPT !.dll = v] ELSE [m1 EXCEPT !.thr = v]
          [] off = IER_DLH ->
               IF Dlab(m) THEN [m1 EXCEPT !.dlh = v] ELSE [m1 EXCEPT !.ier = v]
          [] off = IIR_FCR -> [m1 EXCEPT !.fcr = v]
          [] off = LCR -> [m1 EXCEPT !.lcr = v]
          [] off = MCR -> [m1 EXCEPT !.mcr = v]
          [] off = SCRATCH -> [m1 EXCEPT !.scratch = v]
          [] OTHER -> m1

Returning(m, r) == [m EXCEPT !.ret = r]

\* reg.<off>.modify(f): write(f(read())), a read followed by a write
\* (the closure f is a function on bytes)
RegModify(m, off, f) == RegWrite(RegRead(m, off), off, f[RegValue(m, off)])

-----------------------------------------------------------------------------
(* Line Control Register: DLAB and the Line Control codec.                 *)

ParityModes == {"No", "Odd", "Even", "Mark", "Space"}

read_lcr(m) ==
    LET m1 == RegRead(m, LCR) IN Returning(m1, Val(RegValue(m, LCR)))

write_lcr(m, value) == Returning(RegWrite(m, LCR, value), Unit)

is_divisor_latch_accessible(m) ==
    LET m1 == RegRead(m, LCR)
    IN  Returning(m1, Bool(BitAnd(RegValue(m, LCR), 128) # 0))

toggle_divisor_latch_accessible(m) ==
    Returning(RegModify(m, LCR, [v \in Byte |-> BitXor(v, 128)]), Unit)

enable_divisor_latch_accessible(m) ==
    Returning(RegModify(m, LCR, [v \in Byte |-> BitOr(v, 128)]), Unit)

\* a read-modify-write of Line Control that leaves the DLAB bit as it is
disable_divisor_latch_accessible_kept(m) ==
    Returning(RegModify(m, LCR, [v \in Byte |-> v]), Unit)

disable_divisor_latch_accessible(m) ==
    Returning(RegModify(m, LCR, [v \in Byte |-> BitAnd(v, BitNot(128))]), Unit)

get_parity(m) ==
    LET m1 == RegRead(m, LCR)
        f == BitAnd(RegValue(m, LCR), 56)
    IN  CASE f = 0 -> Returning(m1, Enum("No"))
          [] f = 8 -> Returning(m1, Enum("Odd"))
          [] f = 24 -> Returning(m1, Enum("Even"))
          [] f = 40 -> Returning(m1, Enum("Mark"))
          [] f = 56 -> Returning(m1, Enum("Space"))
          [] OTHER -> Returning(m1, Panic)

\* set_parity with the No arm clearing bits 4-5 only
set_parity_narrow_mask(m, parity) ==
    CASE parity = "No" ->
           Returning(RegModify(m, LCR, [v \in Byte |-> BitAnd(v, 207)]), Unit)
      [] parity = "Odd" ->
           Returning(RegModify(m, LCR, [v \in Byte |-> BitOr(BitAnd(v, 199), 8)]), Unit)
      [] parity = "Even" ->
           Returning(RegModify(m, LCR, [v \in Byte |-> BitOr(BitAnd(v, 199), 24)]), Unit)
      [] parity = "Mark" ->
           Returning(RegModify(m, LCR, [v \in Byte |-> BitOr(BitAnd(v, 199), 40)]), Unit)
      [] parity = "Space" ->
           Returning(RegModify(m, LCR, [v \in Byte |-> BitOr(v, 56)]), Unit)

\* set_parity with the No arm clearing the parity-enable bit only
set_parity_enable_bit_only(m, parity) ==
    CASE parity = "No" ->
           Returning(RegModify(m, LCR, [v \in Byte |-> BitAnd(v, 247)]), Unit)
      [] parity = "Odd" ->
           Returning(RegModify(m, LCR, [v \in Byte |-> BitOr(BitAnd(v, 199), 8)]), Unit)
      [] parity = "Even" ->
           Returning(RegModify(m, LCR, [v \in Byte |-> BitOr(BitAnd(v, 199), 24)]), Unit)
      [] parity = "Mark" ->
           Returning(RegModify(m, LCR, [v \in Byte |-> BitOr(BitAnd(v, 199), 40)]), Unit)
      [] parity = "Space" ->
           Returning(RegModify(m, LCR, [v \in Byte |-> BitOr(v, 56)]), Unit)

set_parity(m, parity) ==
    CASE parity = "No" ->
           Returning(RegModify(m, LCR, [v \in Byte |-> BitAnd(v, 199)]), Unit)
      [] parity = "Odd" ->
           Returning(RegModify(m, LCR, [v \in Byte |-> BitOr(BitAnd(v, 199), 8)]), Unit)
      [] parity = "Even" ->
           Returning(RegModify(m, LCR, [v \in Byte |-> BitOr(BitAnd(v, 199), 24)]), Unit)
      [] parity = "Mark" ->
           Returning(RegModify(m, LCR, [v \in Byte |-> BitOr(BitAnd(v, 199), 40)]), Unit)
      [] parity = "Space" ->
           Returning(RegModify(m, LCR, [v \in Byte |-> BitOr(v, 56)]), Unit)

get_stop_bit(m) ==
    LET m1 == RegRead(m, LCR)
    IN  Returning(m1, Val((BitAnd(RegValue(m, LCR), 4) \div 4) + 1))

\* set_stop_bit clearing bit 1 instead of bit 2
set_stop_bit_wrong_bit(m, stop_bit) ==
    CASE stop_bit = 1 ->
           Returning(RegModify(m, LCR, [v \in Byte |-> BitAnd(v, 253)]), Unit)
      [] stop_bit = 2 ->
           Returning(RegModify(m, LCR, [v \in Byte |-> BitOr(v, 4)]), Unit)
      [] OTHER -> Returning(m, Panic)

\* set_stop_bit taking every value but 1 as 2
set_stop_bit_clamped(m, stop_bit) ==
    CASE stop_bit = 1 ->
           Returning(RegModify(m, LCR, [v \in Byte |-> BitAnd(v, 251)]), Unit)
      [] OTHER ->
           Returning(RegModify(m, LCR, [v \in Byte |-> BitOr(v, 4)]), Unit)

set_stop_bit(m, stop_bit) ==
    CASE stop_bit = 1 ->
           Returning(RegModify(m, LCR, [v \in Byte |-> BitAnd(v, 251)]), Unit)
      [] stop_bit = 2 ->
           Returning(RegModify(m, LCR, [v \in Byte |-> BitOr(v, 4)]), Unit)
      [] OTHER -> Returning(m, Panic)

get_word_length(m) ==
    LET m1 == RegRead(m, LCR)
    IN  Returning(m1, Val(BitAnd(RegValue(m, LCR), 3) + 5))

\* set_word_length or-ing in the length without the bias of 5
set_word_length_unbiased(m, length) ==
    IF length \in 5..8
    THEN Returning(RegModify(m, LCR, [v \in Byte |-> BitOr(v, length)]), Unit)
    ELSE Returning(m, Panic)

set_word_length(m, length) ==
    IF length \in 5..8
    THEN Returning(RegModify(m, LCR, [v \in Byte |-> BitOr(v, length - 5)]), Unit)
    ELSE Returning(m, Panic)

-----------------------------------------------------------------------------
(* Divisor latch.                                                          *)

\* x >> n on usize
Shr(x, n) == x \div (2 ^ n)

write_dll(m, value) == Returning(RegWrite(m, THR_RBR_DLL, value), Unit)

write_dlh(m, value) == Returning(RegWrite(m, IER_DLH, value), Unit)

\* set_divisor casting to u8 before shifting: the high byte is lost
set_divisor_cast_first(m, clock, baud_rate) ==
    LET m1 == enable_divisor_latch_accessible(m) IN
    IF 16 * baud_rate = 0 THEN Returning(m1, Panic)
    ELSE LET divisor == clock \div (16 * baud_rate)
             m2 == write_dll(m1, AsU8(divisor))
             m3 == write_dlh(m2, Shr(AsU8(divisor), 8))
         IN  disable_divisor_latch_accessible(m3)

\* clock and baud_rate are usize; the values tried keep 16 * baud_rate far
\* below the width of usize, so the product never wraps.  Integer division
\* by zero panics, after DLAB has been set.
\* set_divisor opening and closing the latch with whole-byte writes of Line
\* Control instead of the two read-modify-writes
set_divisor_raw_lcr(m, clock, baud_rate) ==
    LET m1 == write_lcr(m, 128) IN
    IF 16 * baud_rate = 0 THEN Returning(m1, Panic)
    ELSE LET divisor == clock \div (16 * baud_rate)
             m2 == write_dll(m1, AsU8(divisor))
             m3 == write_dlh(m2, AsU8(Shr(divisor, 8)))
         IN  write_lcr(m3, 0)

set_divisor(m, clock, baud_rate) ==
    LET m1 == enable_divisor_latch_accessible(m) IN
    IF 16 * baud_rate = 0 THEN Returning(m1, Panic)
    ELSE LET divisor == clock \div (16 * baud_rate)
             m2 == write_dll(m1, AsU8(divisor))
             m3 == write_dlh(m2, AsU8(Shr(divisor, 8)))
         IN  disable_divisor_latch_accessible(m3)

-----------------------------------------------------------------------------
(* Interrupt Identification register, Line Status register, byte input.    *)

\* read_interrupt_type with 1110 missing from the Reserved arm
read_interrupt_type_partial(m) ==
    LET m1 == RegRead(m, IIR_FCR)
        irq == BitAnd(RegValue(m, IIR_FCR), 15)
    IN  IF BitAnd(irq, 1) # 0 THEN Returning(m1, None)
        ELSE CASE irq = 0 -> Returning(m1, SomeEnum("ModemStatus"))
               [] irq = 2 ->
                    Returning(m1, SomeEnum("TransmitterHoldingRegisterEmpty"))
               [] irq = 4 -> Returning(m1, SomeEnum("ReceivedDataAvailable"))
               [] irq = 6 -> Returning(m1, SomeEnum("ReceiverLineStatus"))
               [] irq = 12 -> Returning(m1, SomeEnum("Timeout"))
               [] irq \in {8, 10} -> Returning(m1, SomeEnum("Reserved"))
               [] OTHER -> Returning(m1, Panic)

\* read_interrupt_type reading the register once for the pending bit and a
\* second time for the cause
read_interrupt_type_two_reads(m) ==
    LET m1 == RegRead(m, IIR_FCR)
        m2 == RegRead(m1, IIR_FCR)
        irq == BitAnd(RegValue(m1, IIR_FCR), 15)
    IN  IF BitAnd(RegValue(m, IIR_FCR), 1) # 0 THEN Returning(m1, None)
        ELSE CASE irq = 0 -> Returning(m2, SomeEnum("ModemStatus"))
               [] irq = 2 ->
                    Returning(m2, SomeEnum("TransmitterHoldingRegisterEmpty"))
               [] irq = 4 -> Returning(m2, SomeEnum("ReceivedDataAvailable"))
               [] irq = 6 -> Returning(m2, SomeEnum("ReceiverLineStatus"))
               [] irq = 12 -> Returning(m2, SomeEnum("Timeout"))
               [] irq \in {8, 10, 14} -> Returning(m2, SomeEnum("Reserved"))
               [] OTHER -> Returning(m2, Panic)

read_interrupt_type(m) ==
    LET m1 == RegRead(m, IIR_FCR)
        irq == BitAnd(RegValue(m, IIR_FCR), 15)
    IN  IF BitAnd(irq, 1) # 0 THEN Returning(m1, None)
        ELSE CASE irq = 0 -> Returning(m1, SomeEnum("ModemStatus"))
               [] irq = 2 ->
                    Returning(m1, SomeEnum("TransmitterHoldingRegisterEmpty"))
               [] irq = 4 -> Returning(m1, SomeEnum("ReceivedDataAvailable"))
               [] irq = 6 -> Returning(m1, SomeEnum("ReceiverLineStatus"))
               [] irq = 12 -> Returning(m1, SomeEnum("Timeout"))
               [] irq \in {8, 10, 14} -> Returning(m1, SomeEnum("Reserved"))
               [] OTHER -> Returning(m1, Panic)

\* LSR flags
LSR_DR == 1
LSR_ALL == 255

read_lsr(m) ==
    LET m1 == RegRead(m, LSR) IN Returning(m1, Val(RegValue(m, LSR)))

\* LSR::from_bits_truncate(read_lsr()): the bits that are no LSR flag dropped
lsr_flags(m) ==
    LET m1 == read_lsr(m) IN Returning(m1, Val(BitAnd(m1.ret.v, LSR_ALL)))

is_data_ready(m) ==
    LET m1 == lsr_flags(m)
    IN  Returning(m1, Bool(BitAnd(m1.ret.v, LSR_DR) = LSR_DR))

read_rbr(m) ==
    LET m1 == RegRead(m, THR_RBR_DLL)
    IN  Returning(m1, Val(RegValue(m, THR_RBR_DLL)))

\* read_byte reading the data register before looking at the status
read_byte_data_first(m) ==
    LET m1 == read_rbr(m)
        m2 == is_data_ready(m1)
    IN  IF m2.ret = Bool(TRUE)
        THEN Returning(m2, SomeByte(m1.ret.v))
        ELSE Returning(m2, None)

read_byte(m) ==
    LET m1 == is_data_ready(m) IN
    IF m1.ret = Bool(TRUE)
    THEN LET m2 == read_rbr(m1) IN Returning(m2, SomeByte(m2.ret.v))
    ELSE Returning(m1, None)

-----------------------------------------------------------------------------
(* Calls.  A call runs one method to completion on the current registers.  *)

NoCall == [op |-> "-", p |-> "-", x |-> 0, y |-> 0]
CallP(op, p) == [op |-> op, p |-> p, x |-> 0, y |-> 0]
CallX(op, x) == [op |-> op, p |-> "-", x |-> x, y |-> 0]
CallXY(op, x, y) == [op |-> op, p |-> "-", x |-> x, y |-> y]
Call0(op) == [op |-> op, p |-> "-", x |-> 0, y |-> 0]

\* the registers, the access list and the outcome become those of m
CommitRegs(m) ==
    /\ lcr' = m.lcr
    /\ ier' = m.ier
    /\ dll' = m.dll
    /\ dlh' = m.dlh
    /\ thr' = m.thr
    /\ rbr' = m.rbr
    /\ iir' = m.iir
    /\ fcr' = m.fcr
    /\ mcr' = m.mcr
    /\ lsr' = m.lsr
    /\ msr' = m.msr
    /\ scratch' = m.scratch
    /\ log' = m.log
    /\ ret' = m.ret

\* the callers of the register block: mainline code and an interrupt handler
Callers == {"main", "isr"}

Idle == [pc |-> "idle", job |-> NoCall, val |-> 0]

\* a complete call: no caller is inside a read-modify-write sequence, and
\* none starts one
Commit(m) ==
    /\ \A c \in Callers : tasks[c].pc = "idle"
    /\ CommitRegs(m)
    /\ UNCHANGED tasks

\* u8 arguments tried for set_stop_bit and set_word_length
MaxArg == 9
U8Args == (0..MaxArg) \cup {255}

SetParity ==
    \E p \in ParityModes :
        /\ call' = CallP("set_parity", p)
        /\ Commit(set_parity(Cur, p))

SetStopBit ==
    \E s \in U8Args :
        /\ call' = CallX("set_stop_bit", s)
        /\ Commit(set_stop_bit(Cur, s))

SetWordLength ==
    \E w \in U8Args :
        /\ call' = CallX("set_word_length", w)
        /\ Commit(set_word_length(Cur, w))

GetParity ==
    /\ call' = Call0("get_parity")
    /\ Commit(get_parity(Cur))

GetStopBit ==
    /\ call' = Call0("get_stop_bit")
    /\ Commit(get_stop_bit(Cur))

GetWordLength ==
    /\ call' = Call0("get_word_length")
    /\ Commit(get_word_length(Cur))

\* no call made yet
NotCalled ==
    /\ call = NoCall /\ log = <<>> /\ ret = Unit
    /\ tasks = [c \in Callers |-> Idle]

\* the Line Control codec from any Line Control byte
InitLcr ==
    /\ lcr \in Byte
    /\ ier = 0 /\ dll = 0 /\ dlh = 0 /\ thr = 0 /\ rbr = 0
    /\ iir = 1 /\ fcr = 0 /\ mcr = 0 /\ lsr = 96 /\ msr = 0 /\ scratch = 0
    /\ NotCalled

NextLcr ==
    \/ SetParity
    \/ SetStopBit
    \/ SetWordLength
    \/ GetParity
    \/ GetStopBit
    \/ GetWordLength

SpecLcr == InitLcr /\ [][NextLcr]_vars

-----------------------------------------------------------------------------
(* Line Control codec: claims C1 to C5, under SpecLcr.                     *)

\* the registers other than Line Control
OtherRegs == <<ier, dll, dlh, thr, rbr, iir, fcr, mcr, lsr, msr, scratch>>

\* the Line Control byte the last call found, for a call that read it first
LcrBefore == log[1].v

CodecSetters == {"set_parity", "set_stop_bit", "set_word_length"}

\* C1: after set_word_length(w) with w in 5..8 returns, get_word_length()
\* returns w and bits 0-1 of Line Control equal w - 5, whatever Line Control
\* held before.
C1_WordLengthRoundTrip ==
    (call.op = "set_word_length" /\ call.x \in 5..8) =>
        /\ ret = Unit
        /\ get_word_length(Cur).ret = Val(call.x)
        /\ BitAnd(lcr, 3) = call.x - 5

\* C2: set_parity, set_stop_bit and set_word_length change only their own
\* sub-field of Line Control (bits 3-5, bit 2, bits 0-1), and write no
\* register other than Line Control.
C2_CodecFrame ==
    [][/\ call'.op = "set_parity" => BitAnd(lcr', 199) = BitAnd(lcr, 199)
       /\ call'.op = "set_stop_bit" => BitAnd(lcr', 251) = BitAnd(lcr, 251)
       /\ call'.op = "set_word_length" => BitAnd(lcr', 252) = BitAnd(lcr, 252)
       /\ call'.op \in CodecSetters =>
            /\ UNCHANGED OtherRegs
            /\ \A i \in 1..Len(log') : log'[i].k = "w" => log'[i].off = LCR]_vars

\* a setter ran on a byte with DLAB and break set and changed its own field
C2_Witness ==
    /\ call.op = "set_parity"
    /\ call.p = "Even"
    /\ Len(log) = 2
    /\ LcrBefore = 231
    /\ lcr = 223

\* C3: after set_parity(p) returns, get_parity() returns p and bits 3-5 of
\* Line Control hold the encoding of p (000, 001, 011, 101, 111 for No, Odd,
\* Even, Mark, Space), whatever Line Control held before.
C3_ParityRoundTrip ==
    call.op = "set_parity" =>
        /\ ret = Unit
        /\ get_parity(Cur).ret = Enum(call.p)
        /\ BitAnd(lcr, 56) =
             (CASE call.p = "No" -> 0
                [] call.p = "Odd" -> 8
                [] call.p = "Even" -> 24
                [] call.p = "Mark" -> 40
                [] call.p = "Space" -> 56)

\* set_parity(No) ran on a byte whose parity field held an invalid pattern
C3_Witness ==
    /\ call.op = "set_parity"
    /\ call.p = "No"
    /\ Len(log) = 2
    /\ BitAnd(LcrBefore, 56) = 16
    /\ BitAnd(lcr, 56) = 0

\* C4: after set_stop_bit(s) with s in {1, 2} returns, get_stop_bit() returns
\* s, and bit 2 of Line Control is 0 for s = 1 and 1 for s = 2.
C4_StopBitRoundTrip ==
    (call.op = "set_stop_bit" /\ call.x \in {1, 2}) =>
        /\ ret = Unit
        /\ get_stop_bit(Cur).ret = Val(call.x)
        /\ Bit(lcr, 2) = call.x - 1

\* set_stop_bit(1) ran on a byte whose stop bit was set
C4_Witness ==
    /\ call.op = "set_stop_bit"
    /\ call.x = 1
    /\ Len(log) = 2
    /\ Bit(LcrBefore, 2) = 1
    /\ Bit(lcr, 2) = 0

\* C5: set_stop_bit with a value outside {1, 2} and set_word_length with a
\* value outside 5..8 panic, access no register and leave every register as
\* it was.
C5_IllegalValuesPanic ==
    [][(\/ call'.op = "set_stop_bit" /\ call'.x \notin {1, 2}
        \/ call'.op = "set_word_length" /\ call'.x \notin 5..8) =>
            /\ ret' = Panic
            /\ log' = <<>>
            /\ lcr' = lcr
            /\ UNCHANGED OtherRegs]_vars

\* set_word_length(255) panicked
C5_Witness ==
    /\ call.op = "set_word_length"
    /\ call.x = 255
    /\ ret = Panic
    /\ log = <<>>

-----------------------------------------------------------------------------
(* Divisor programming from any Line Control byte.                         *)

UartClock == 1843200
MaxSmallClock == 17
MaxSmallBaud == 2

\* the reference clock of the source's table, and clocks around 16
Clocks == {UartClock} \cup (15..MaxSmallClock)

\* rates of the source's table, one above it, one that overflows 16 bits
\* with UartClock (1), and zero
BaudRates == (0..MaxSmallBaud) \cup {50, 110, 115200, 230400}

SetDivisor ==
    \E clock \in Clocks, baud_rate \in BaudRates :
        /\ call' = CallXY("set_divisor", clock, baud_rate)
        /\ Commit(set_divisor(Cur, clock, baud_rate))

InitDiv == InitLcr

NextDiv == SetDivisor

SpecDiv == InitDiv /\ [][NextDiv]_vars

\* the writes of the last call, in program order
Writes == SelectSeq(log, LAMBDA a : a.k = "w")

\* the accesses of the last call to offset off
AccessesTo(off) == SelectSeq(log, LAMBDA a : a.off = off)

-----------------------------------------------------------------------------
(* Divisor latch: claims C6 to C8, under SpecDiv.                          *)

C7_DivisorOrder ==
    call.op = "set_divisor" =>
        /\ Len(Writes) = 4
        /\ Writes[1].off = LCR /\ Writes[1].v >= 128
        /\ Writes[2].off = THR_RBR_DLL /\ Writes[2].dlab
        /\ Writes[3].off = IER_DLH /\ Writes[3].dlab
        /\ Writes[4].off = LCR /\ Writes[4].v < 128
        /\ Len(AccessesTo(THR_RBR_DLL)) = 1
        /\ Len(AccessesTo(IER_DLH)) = 1

\* the part of C7 that holds of the code: a call of set_divisor that returns
\* made exactly the four writes in order, and a call that panics made only
\* the first and touched neither offset 0 nor offset 1.
DivisorOrderWhenReturning ==
    call.op = "set_divisor" =>
        IF ret = Unit
        THEN /\ Len(Writes) = 4
             /\ Writes[1].off = LCR /\ Writes[1].v >= 128
             /\ Writes[2].off = THR_RBR_DLL /\ Writes[2].dlab
             /\ Writes[3].off = IER_DLH /\ Writes[3].dlab
             /\ Writes[4].off = LCR /\ Writes[4].v < 128
             /\ Len(AccessesTo(THR_RBR_DLL)) = 1
             /\ Len(AccessesTo(IER_DLH)) = 1
        ELSE /\ call.y = 0
             /\ Len(Writes) = 1
             /\ Writes[1].off = LCR /\ Writes[1].v >= 128
             /\ Len(AccessesTo(THR_RBR_DLL)) = 0
             /\ Len(AccessesTo(IER_DLH)) = 0

\* C8: when baud_rate is zero or 16 * baud_rate > clock, set_divisor returns,
\* having written 0x00 to offset 0 and to offset 1, with DLAB cleared.
C8_ZeroDivisorWritten ==
    (/\ call.op = "set_divisor"
     /\ (call.y = 0 \/ 16 * call.y > call.x)) =>
        /\ ret = Unit
        /\ Len(AccessesTo(THR_RBR_DLL)) = 1
        /\ AccessesTo(THR_RBR_DLL)[1] = [k |-> "w", off |-> 0, v |-> 0, dlab |-> TRUE]
        /\ Len(AccessesTo(IER_DLH)) = 1
        /\ AccessesTo(IER_DLH)[1] = [k |-> "w", off |-> 1, v |-> 0, dlab |-> TRUE]
        /\ lcr < 128

\* the part of C8 that holds of the code: a non-zero baud_rate with
\* 16 * baud_rate > clock writes a zero divisor and returns with DLAB clear.
ZeroDivisorWhenBaudTooLarge ==
    (/\ call.op = "set_divisor"
     /\ call.y # 0
     /\ 16 * call.y > call.x) =>
        /\ ret = Unit
        /\ AccessesTo(THR_RBR_DLL) = <<[k |-> "w", off |-> 0, v |-> 0, dlab |-> TRUE]>>
        /\ AccessesTo(IER_DLH) = <<[k |-> "w", off |-> 1, v |-> 0, dlab |-> TRUE]>>
        /\ lcr < 128

-----------------------------------------------------------------------------
(* Interrupt-cause decoding from any Interrupt Identification byte.        *)

ReadInterruptType ==
    /\ call' = Call0("read_interrupt_type")
    /\ Commit(read_interrupt_type(Cur))

InitIir ==
    /\ iir \in Byte
    /\ lcr = 0 /\ ier = 0 /\ dll = 0 /\ dlh = 0 /\ thr = 0 /\ rbr = 0
    /\ fcr = 0 /\ mcr = 0 /\ lsr = 96 /\ msr = 0 /\ scratch = 0
    /\ NotCalled

NextIir == ReadInterruptType

SpecIir == InitIir /\ [][NextIir]_vars

\* C9: for every byte read from offset 2, read_interrupt_type depends only on
\* bits 3..0, never panics, returns None when bit 0 is 1 and otherwise
\* follows the table 0000 ModemStatus, 0010 TransmitterHoldingRegisterEmpty,
\* 0100 ReceivedDataAvailable, 0110 ReceiverLineStatus, 1100 Timeout,
\* 1000 / 1010 / 1110 Reserved.
C9_InterruptDecodeTotal ==
    call.op = "read_interrupt_type" =>
        /\ Len(log) = 1
        /\ log[1].k = "r" /\ log[1].off = IIR_FCR
        /\ ret # Panic
        /\ LET n == log[1].v % 16 IN
           ret = (CASE n % 2 = 1 -> None
                    [] n = 0 -> SomeEnum("ModemStatus")
                    [] n = 2 -> SomeEnum("TransmitterHoldingRegisterEmpty")
                    [] n = 4 -> SomeEnum("ReceivedDataAvailable")
                    [] n = 6 -> SomeEnum("ReceiverLineStatus")
                    [] n = 8 -> SomeEnum("Reserved")
                    [] n = 10 -> SomeEnum("Reserved")
                    [] n = 12 -> SomeEnum("Timeout")
                    [] n = 14 -> SomeEnum("Reserved"))

\* the byte 0xEE (FIFO bits set, cause bits 1110) decoded as Reserved
C9_Witness ==
    /\ call.op = "read_interrupt_type"
    /\ log = <<[k |-> "r", off |-> 2, v |-> 238, dlab |-> FALSE]>>
    /\ ret = SomeEnum("Reserved")

-----------------------------------------------------------------------------
(* Byte input from any Line Status byte.                                   *)

\* bytes waiting in the receive buffer
RxBytes == {0, 65, 255}

ReadByte ==
    /\ call' = Call0("read_byte")
    /\ Commit(read_byte(Cur))

InitRx ==
    /\ lsr \in Byte
    /\ rbr \in RxBytes
    /\ lcr \in {3, 131}
    /\ dll = 12
    /\ ier = 0 /\ dlh = 0 /\ thr = 0
    /\ iir = 1 /\ fcr = 0 /\ mcr = 0 /\ msr = 0 /\ scratch = 0
    /\ NotCalled

NextRx == ReadByte

SpecRx == InitRx /\ [][NextRx]_vars

-----------------------------------------------------------------------------
(* Byte output, whatever Line Status holds.                                *)

write_thr(m, value) == Returning(RegWrite(m, THR_RBR_DLL, value), Unit)

\* write_byte looking at Line Status first and writing only when the
\* transmitter holding register is empty
write_byte_when_empty(m, byte) ==
    LET m1 == lsr_flags(m) IN
    IF BitAnd(m1.ret.v, 32) = 32 THEN write_thr(m1, byte)
    ELSE Returning(m1, Unit)

write_byte(m, byte) == write_thr(m, byte)

\* bytes handed to write_byte
TxBytes == {0, 10, 255}

WriteByte ==
    \E b \in TxBytes :
        /\ call' = CallX("write_byte", b)
        /\ Commit(write_byte(Cur, b))

InitTx == InitRx

NextTx == WriteByte

SpecTx == InitTx /\ [][NextTx]_vars

\* C11: write_byte(b) performs exactly one register access, a write of b to
\* offset 0; it reads no register, and writes whether or not the
\* transmitter-holding-register-empty flag of Line Status is set.
C11_WriteByteUnconditional ==
    call.op = "write_byte" =>
        /\ ret = Unit
        /\ Len(log) = 1
        /\ log[1].k = "w" /\ log[1].off = THR_RBR_DLL /\ log[1].v = call.x
        /\ lcr < 128 => thr = call.x

\* a byte written while Line Status shows the holding register still full
C11_Witness ==
    /\ call = CallX("write_byte", 10)
    /\ Bit(lsr, 5) = 0
    /\ lcr = 3
    /\ thr = 10
    /\ Len(log) = 1


-----------------------------------------------------------------------------
(* Interrupt Enable Register.                                              *)

\* IER flags
IER_RDAI == 1
IER_THREI == 2
IER_RLSI == 4
IER_MSI == 8
IER_SM == 16
IER_LPM == 32
IER_ALL == 63

IerFlags == {IER_RDAI, IER_THREI, IER_RLSI, IER_MSI, IER_SM, IER_LPM}

read_ier(m) ==
    LET m1 == RegRead(m, IER_DLH) IN Returning(m1, Val(RegValue(m, IER_DLH)))

write_ier(m, value) == Returning(RegWrite(m, IER_DLH, value), Unit)

\* IER::from_bits_truncate(read_ier()): the bits that are no IER flag dropped
ier_flags(m) ==
    LET m1 == read_ier(m) IN Returning(m1, Val(BitAnd(m1.ret.v, IER_ALL)))

\* set_ier(flag): write_ier(flag.bits())
set_ier(m, flag) == write_ier(m, flag)

\* !flag on the flag set: the complement within the defined flags
IerNot(flag) == BitAnd(BitNot(flag), IER_ALL)

enable_received_data_available_interrupt(m) ==
    LET m1 == ier_flags(m) IN set_ier(m1, BitOr(m1.ret.v, IER_RDAI))

-----------------------------------------------------------------------------
(* Initialisation.                                                         *)

write_fcr(m, value) == Returning(RegWrite(m, IIR_FCR, value), Unit)

write_mcr(m, value) == Returning(RegWrite(m, MCR, value), Unit)

\* init writing the line protocol before programming the divisor
init_protocol_first(m, clock, baud_rate) ==
    LET m1 == set_divisor(write_lcr(m, 3), clock, baud_rate) IN
    IF m1.ret = Panic THEN m1
    ELSE enable_received_data_available_interrupt(
             write_mcr(write_fcr(m1, 1), 0))

\* a panic in set_divisor ends init there
init(m, clock, baud_rate) ==
    LET m1 == set_divisor(m, clock, baud_rate) IN
    IF m1.ret = Panic THEN m1
    ELSE enable_received_data_available_interrupt(
             write_mcr(write_fcr(write_lcr(m1, 3), 1), 0))

\* Line Control and Interrupt Enable bytes the handle is initialised over
LcrSamples == {0, 3, 27, 128, 191, 255}
IerSamples == {0, 1, 14, 194}

InitUart ==
    \E clock \in Clocks, baud_rate \in BaudRates :
        /\ call' = CallXY("init", clock, baud_rate)
        /\ Commit(init(Cur, clock, baud_rate))

InitInit ==
    /\ lcr \in LcrSamples
    /\ ier \in IerSamples
    /\ dll = 0 /\ dlh = 0 /\ thr = 0 /\ rbr = 0
    /\ iir = 1 /\ fcr = 0 /\ mcr = 11 /\ lsr = 96 /\ msr = 0 /\ scratch = 0
    /\ NotCalled

NextInit == InitUart

SpecInit == InitInit /\ [][NextInit]_vars

\* C12: init(clock, baud_rate) with a valid divisor performs, in order and
\* nothing else: the divisor programming (DLAB set, divisor low, divisor
\* high, DLAB clear), Line Control = 0x03, FIFO Control = 0x01, Modem
\* Control = 0x00, then a read of Interrupt Enable and its write-back with
\* bit 0 set.  On return DLAB is clear, Line Control is 0x03, Modem Control
\* is 0 and the data-available interrupt is enabled.
C12_InitSequence ==
    (/\ call.op = "init"
     /\ call.y # 0
     /\ call.x \div (16 * call.y) \in 1..65535) =>
        LET divisor == call.x \div (16 * call.y) IN
        /\ ret = Unit
        /\ Len(log) = 11
        /\ log[1].k = "r" /\ log[1].off = LCR
        /\ log[2] = [k |-> "w", off |-> LCR, v |-> BitOr(log[1].v, 128),
                     dlab |-> log[1].dlab]
        /\ log[3] = [k |-> "w", off |-> THR_RBR_DLL, v |-> divisor % 256,
                     dlab |-> TRUE]
        /\ log[4] = [k |-> "w", off |-> IER_DLH, v |-> divisor \div 256,
                     dlab |-> TRUE]
        /\ log[5] = [k |-> "r", off |-> LCR, v |-> log[2].v, dlab |-> TRUE]
        /\ log[6] = [k |-> "w", off |-> LCR, v |-> log[5].v - 128,
                     dlab |-> TRUE]
        /\ log[7] = [k |-> "w", off |-> LCR, v |-> 3, dlab |-> FALSE]
        /\ log[8] = [k |-> "w", off |-> IIR_FCR, v |-> 1, dlab |-> FALSE]
        /\ log[9] = [k |-> "w", off |-> MCR, v |-> 0, dlab |-> FALSE]
        /\ log[10].k = "r" /\ log[10].off = IER_DLH /\ ~log[10].dlab
        /\ log[11].k = "w" /\ log[11].off = IER_DLH /\ ~log[11].dlab
        /\ log[11].v % 2 = 1
        /\ log[11].v \div 2 = (log[10].v % 64) \div 2
        /\ lcr = 3
        /\ fcr = 1
        /\ mcr = 0
        /\ ier = log[11].v
        /\ is_divisor_latch_accessible(Cur).ret = Bool(FALSE)

\* init(1843200, 110) over a block with DLAB set, modem lines up and the
\* data-available interrupt off
C12_Witness ==
    /\ call = CallXY("init", 1843200, 110)
    /\ Len(log) = 11
    /\ log[1].v = 191
    /\ log[10].v = 14
    /\ lcr = 3 /\ mcr = 0 /\ fcr = 1 /\ ier = 15
    /\ dll = 23 /\ dlh = 4

-----------------------------------------------------------------------------
(* Interrupt Enable Register: the query, toggle, enable and disable of     *)
(* each flag.                                                              *)

is_low_power_mode_enabled(m) ==
    LET m1 == ier_flags(m)
    IN  Returning(m1, Bool(BitAnd(m1.ret.v, IER_LPM) = IER_LPM))

toggle_low_power_mode(m) ==
    LET m1 == ier_flags(m) IN set_ier(m1, BitXor(m1.ret.v, IER_LPM))

enable_low_power_mode(m) ==
    LET m1 == ier_flags(m) IN set_ier(m1, BitOr(m1.ret.v, IER_LPM))

disable_low_power_mode(m) ==
    LET m1 == ier_flags(m)
    IN  set_ier(m1, BitAnd(m1.ret.v, IerNot(IER_LPM)))

is_sleep_mode_enabled(m) ==
    LET m1 == ier_flags(m)
    IN  Returning(m1, Bool(BitAnd(m1.ret.v, IER_SM) = IER_SM))

toggle_sleep_mode(m) ==
    LET m1 == ier_flags(m) IN set_ier(m1, BitXor(m1.ret.v, IER_SM))

enable_sleep_mode(m) ==
    LET m1 == ier_flags(m) IN set_ier(m1, BitOr(m1.ret.v, IER_SM))

\* disable_sleep_mode writing the complement of the flag alone
disable_sleep_mode_clobbering(m) ==
    LET m1 == ier_flags(m) IN set_ier(m1, IerNot(IER_SM))

disable_sleep_mode(m) ==
    LET m1 == ier_flags(m)
    IN  set_ier(m1, BitAnd(m1.ret.v, IerNot(IER_SM)))

is_modem_status_interrupt_enabled(m) ==
    LET m1 == ier_flags(m)
    IN  Returning(m1, Bool(BitAnd(m1.ret.v, IER_MSI) = IER_MSI))

toggle_modem_status_interrupt(m) ==
    LET m1 == ier_flags(m) IN set_ier(m1, BitXor(m1.ret.v, IER_MSI))

enable_modem_status_interrupt(m) ==
    LET m1 == ier_flags(m) IN set_ier(m1, BitOr(m1.ret.v, IER_MSI))

disable_modem_status_interrupt(m) ==
    LET m1 == ier_flags(m)
    IN  set_ier(m1, BitAnd(m1.ret.v, IerNot(IER_MSI)))

is_receiver_line_status_interrupt_enabled(m) ==
    LET m1 == ier_flags(m)
    IN  Returning(m1, Bool(BitAnd(m1.ret.v, IER_RLSI) = IER_RLSI))

toggle_receiver_line_status_interrupt(m) ==
    LET m1 == ier_flags(m) IN set_ier(m1, BitXor(m1.ret.v, IER_RLSI))

enable_receiver_line_status_interrupt(m) ==
    LET m1 == ier_flags(m) IN set_ier(m1, BitOr(m1.ret.v, IER_RLSI))

disable_receiver_line_status_interrupt(m) ==
    LET m1 == ier_flags(m)
    IN  set_ier(m1, BitAnd(m1.ret.v, IerNot(IER_RLSI)))

is_transmitter_holding_register_empty_interrupt_enabled(m) ==
    LET m1 == ier_flags(m)
    IN  Returning(m1, Bool(BitAnd(m1.ret.v, IER_THREI) = IER_THREI))

toggle_transmitter_holding_register_empty_interrupt(m) ==
    LET m1 == ier_flags(m) IN set_ier(m1, BitXor(m1.ret.v, IER_THREI))

enable_transmitter_holding_register_empty_interrupt(m) ==
    LET m1 == ier_flags(m) IN set_ier(m1, BitOr(m1.ret.v, IER_THREI))

disable_transmitter_holding_register_empty_interrupt(m) ==
    LET m1 == ier_flags(m)
    IN  set_ier(m1, BitAnd(m1.ret.v, IerNot(IER_THREI)))

is_received_data_available_interrupt_enabled(m) ==
    LET m1 == ier_flags(m)
    IN  Returning(m1, Bool(BitAnd(m1.ret.v, IER_RDAI) = IER_RDAI))

\* toggle_received_data_available_interrupt or-ing the flag in instead of xor-ing it
toggle_rdai_as_enable(m) ==
    LET m1 == ier_flags(m) IN set_ier(m1, BitOr(m1.ret.v, IER_RDAI))

toggle_received_data_available_interrupt(m) ==
    LET m1 == ier_flags(m) IN set_ier(m1, BitXor(m1.ret.v, IER_RDAI))

disable_received_data_available_interrupt(m) ==
    LET m1 == ier_flags(m)
    IN  set_ier(m1, BitAnd(m1.ret.v, IerNot(IER_RDAI)))

\* the method of each flag, by flag
is_flag_enabled(m, flag) ==
    CASE flag = IER_LPM -> is_low_power_mode_enabled(m)
      [] flag = IER_SM -> is_sleep_mode_enabled(m)
      [] flag = IER_MSI -> is_modem_status_interrupt_enabled(m)
      [] flag = IER_RLSI -> is_receiver_line_status_interrupt_enabled(m)
      [] flag = IER_THREI -> is_transmitter_holding_register_empty_interrupt_enabled(m)
      [] flag = IER_RDAI -> is_received_data_available_interrupt_enabled(m)

toggle_flag(m, flag) ==
    CASE flag = IER_LPM -> toggle_low_power_mode(m)
      [] flag = IER_SM -> toggle_sleep_mode(m)
      [] flag = IER_MSI -> toggle_modem_status_interrupt(m)
      [] flag = IER_RLSI -> toggle_receiver_line_status_interrupt(m)
      [] flag = IER_THREI -> toggle_transmitter_holding_register_empty_interrupt(m)
      [] flag = IER_RDAI -> toggle_received_data_available_interrupt(m)

enable_flag(m, flag) ==
    CASE flag = IER_LPM -> enable_low_power_mode(m)
      [] flag = IER_SM -> enable_sleep_mode(m)
      [] flag = IER_MSI -> enable_modem_status_interrupt(m)
      [] flag = IER_RLSI -> enable_receiver_line_status_interrupt(m)
      [] flag = IER_THREI -> enable_transmitter_holding_register_empty_interrupt(m)
      [] flag = IER_RDAI -> enable_received_data_available_interrupt(m)

disable_flag(m, flag) ==
    CASE flag = IER_LPM -> disable_low_power_mode(m)
      [] flag = IER_SM -> disable_sleep_mode(m)
      [] flag = IER_MSI -> disable_modem_status_interrupt(m)
      [] flag = IER_RLSI -> disable_receiver_line_status_interrupt(m)
      [] flag = IER_THREI -> disable_transmitter_holding_register_empty_interrupt(m)
      [] flag = IER_RDAI -> disable_received_data_available_interrupt(m)

-----------------------------------------------------------------------------
(* Interrupt Enable flag operations from any Interrupt Enable byte, DLAB   *)
(* clear.                                                                  *)

IsFlagEnabled ==
    \E flag \in IerFlags :
        /\ call' = CallX("is_enabled", flag)
        /\ Commit(is_flag_enabled(Cur, flag))

ToggleFlag ==
    \E flag \in IerFlags :
        /\ call' = CallX("toggle", flag)
        /\ Commit(toggle_flag(Cur, flag))

\* a caller toggling one flag twice in a row, nothing in between
ToggleFlagTwice ==
    \E flag \in IerFlags :
        /\ call' = CallX("toggle_twice", flag)
        /\ Commit(toggle_flag(toggle_flag(Cur, flag), flag))

EnableFlag ==
    \E flag \in IerFlags :
        /\ call' = CallX("enable", flag)
        /\ Commit(enable_flag(Cur, flag))

DisableFlag ==
    \E flag \in IerFlags :
        /\ call' = CallX("disable", flag)
        /\ Commit(disable_flag(Cur, flag))

InitIer ==
    /\ ier \in Byte
    /\ lcr = 3
    /\ dll = 0 /\ dlh = 0 /\ thr = 0 /\ rbr = 0
    /\ iir = 1 /\ fcr = 0 /\ mcr = 0 /\ lsr = 96 /\ msr = 0 /\ scratch = 0
    /\ NotCalled

NextIer ==
    \/ IsFlagEnabled
    \/ ToggleFlag
    \/ ToggleFlagTwice
    \/ EnableFlag
    \/ DisableFlag

SpecIer == InitIer /\ [][NextIer]_vars

\* the shape of two toggles in a row: read, write, read of what was written,
\* write
TwoToggles ==
    /\ Len(log) = 4
    /\ log[1].k = "r" /\ log[2].k = "w" /\ log[3].k = "r" /\ log[4].k = "w"
    /\ \A i \in 1..4 : log[i].off = IER_DLH /\ ~log[i].dlab
    /\ log[3].v = log[2].v
    /\ ier = log[4].v

\* C13 as stated: toggling one IER flag twice in a row leaves the Interrupt
\* Enable register holding its original byte, for every byte it may hold.
C13_ToggleTwiceRestoresByte ==
    call.op = "toggle_twice" => TwoToggles /\ ier = log[1].v

\* C13 as amended: toggling one IER flag twice in a row leaves the Interrupt
\* Enable register holding its original byte with bits 6-7 (no IER flag)
\* cleared: the original byte exactly when those bits were clear.
C13_ToggleTwiceRestoresFlags ==
    call.op = "toggle_twice" =>
        /\ TwoToggles
        /\ ier = log[1].v % 64
        /\ log[1].v < 64 => ier = log[1].v
        /\ log[2].v # log[1].v % 64

\* the low-power flag toggled twice over 0xC5: the flags 0x05 are back, the
\* two reserved bits are gone
C13_Witness ==
    /\ call = CallX("toggle_twice", IER_LPM)
    /\ TwoToggles
    /\ log[1].v = 197
    /\ log[2].v = 37
    /\ ier = 5


-----------------------------------------------------------------------------
(* Two unsynchronised callers.  A read-modify-write method is two register *)
(* accesses, the read and the write-back of a value computed from what was *)
(* read; nothing in the methods keeps the other caller's accesses from     *)
(* falling between the two.                                                *)

\* the read-modify-write calls each caller makes
JobsOf(c) ==
    IF c = "main"
    THEN {CallX("enable", IER_RDAI), CallX("set_stop_bit", 2)}
    ELSE {CallX("enable", IER_THREI), CallP("set_parity", "Odd")}

\* the register a call reads and writes back
JobOff(job) == IF job.op = "enable" THEN IER_DLH ELSE LCR

\* the whole method of a call
RunJob(job, m) ==
    CASE job.op = "enable" -> enable_flag(m, job.x)
      [] job.op = "set_stop_bit" -> set_stop_bit(m, job.x)
      [] job.op = "set_parity" -> set_parity(m, job.p)

\* the byte the method writes back when its read yielded val
JobWriteValue(job, val) ==
    LET m == IF JobOff(job) = IER_DLH
             THEN [Cur EXCEPT !.ier = val, !.lcr = 3]
             ELSE [Cur EXCEPT !.lcr = val]
    IN  RunJob(job, m).log[2].v

\* the first half of a call: its read
TaskRead(c) ==
    \E job \in JobsOf(c) :
        /\ tasks[c].pc = "idle"
        /\ call' = [job EXCEPT !.op = "read_step", !.p = c]
        /\ CommitRegs(RegRead(Cur, JobOff(job)))
        /\ tasks' = [tasks EXCEPT ![c] =
               [pc |-> "write", job |-> job, val |-> RegValue(Cur, JobOff(job))]]

\* a write-back that reads the register again, as an atomic update would
TaskWriteRereading(c) ==
    /\ tasks[c].pc = "write"
    /\ call' = [tasks[c].job EXCEPT !.op = "write_step", !.p = c]
    /\ CommitRegs(RegWrite(Cur, JobOff(tasks[c].job),
                           JobWriteValue(tasks[c].job,
                                         RegValue(Cur, JobOff(tasks[c].job)))))
    /\ tasks' = [tasks EXCEPT ![c].pc = "done"]

\* the second half: the write-back of the value computed from the read
TaskWrite(c) ==
    /\ tasks[c].pc = "write"
    /\ call' = [tasks[c].job EXCEPT !.op = "write_step", !.p = c]
    /\ CommitRegs(RegWrite(Cur, JobOff(tasks[c].job),
                           JobWriteValue(tasks[c].job, tasks[c].val)))
    /\ tasks' = [tasks EXCEPT ![c].pc = "done"]

InitRace ==
    /\ ier \in {0, 12, 204}
    /\ lcr \in {3, 67}
    /\ dll = 0 /\ dlh = 0 /\ thr = 0 /\ rbr = 0
    /\ iir = 1 /\ fcr = 0 /\ mcr = 0 /\ lsr = 96 /\ msr = 0 /\ scratch = 0
    /\ NotCalled

NextRace == \E c \in Callers : TaskRead(c) \/ TaskWrite(c)

SpecRace == InitRace /\ [][NextRace]_vars

\* the register a finished call worked on, as it is now
JobReg(job) == IF JobOff(job) = IER_DLH THEN ier ELSE lcr

\* the update of a call is present in byte v: making it again changes nothing
Applied(job, v) == JobWriteValue(job, v) = v

\* both callers have finished a call on the same register
BothDoneOn(a, b) ==
    /\ a # b
    /\ tasks[a].pc = "done" /\ tasks[b].pc = "done"
    /\ JobOff(tasks[a].job) = JobOff(tasks[b].job)

\* C14: the read and the write-back of an IER flag update or of a Line
\* Control sub-field update are separate accesses with no mutual exclusion:
\* when two callers have each finished one on the same register, the
\* register holds what the last writer computed from its own read, so the
\* other caller's update is there exactly if the last writer had read it,
\* and is lost otherwise.
C14_LastWriterWins ==
    \A a \in Callers, b \in Callers :
        (BothDoneOn(a, b) /\ call.p = a) =>
            /\ JobReg(tasks[a].job) =
                   JobWriteValue(tasks[a].job, tasks[a].val)
            /\ Applied(tasks[a].job, JobReg(tasks[a].job))
            /\ Applied(tasks[b].job, JobReg(tasks[a].job))
                   <=> Applied(tasks[b].job, tasks[a].val)

\* a lost update on Interrupt Enable: both enables have finished and the
\* interrupt handler's flag is not set
C14_Witness ==
    /\ BothDoneOn("main", "isr")
    /\ tasks["main"].job = CallX("enable", IER_RDAI)
    /\ tasks["isr"].job = CallX("enable", IER_THREI)
    /\ tasks["main"].val = 0 /\ tasks["isr"].val = 0
    /\ ier = IER_RDAI

\* a lost update on Line Control: both setters have finished and the parity
\* the interrupt handler set is gone
LcrLostUpdate ==
    /\ BothDoneOn("main", "isr")
    /\ tasks["main"].job = CallX("set_stop_bit", 2)
    /\ tasks["isr"].job = CallP("set_parity", "Odd")
    /\ lcr = 7


-----------------------------------------------------------------------------
(* A single owner of the register block, making complete calls to the     *)
(* methods that handle DLAB themselves: no raw write_lcr, no direct DLAB   *)
(* enable or toggle.  Divisor arguments are valid (the division is         *)
(* defined).                                                               *)

OwnerBaudRates == {50, 115200}

OwnerFlags == {IER_RDAI, IER_SM}

OwnerSetDivisor ==
    \E baud_rate \in OwnerBaudRates :
        /\ call' = CallXY("set_divisor", UartClock, baud_rate)
        /\ Commit(set_divisor(Cur, UartClock, baud_rate))

OwnerInit ==
    \E baud_rate \in OwnerBaudRates :
        /\ call' = CallXY("init", UartClock, baud_rate)
        /\ Commit(init(Cur, UartClock, baud_rate))

OwnerIsFlagEnabled ==
    \E flag \in OwnerFlags :
        /\ call' = CallX("is_enabled", flag)
        /\ Commit(is_flag_enabled(Cur, flag))

OwnerToggleFlag ==
    \E flag \in OwnerFlags :
        /\ call' = CallX("toggle", flag)
        /\ Commit(toggle_flag(Cur, flag))

OwnerEnableFlag ==
    \E flag \in OwnerFlags :
        /\ call' = CallX("enable", flag)
        /\ Commit(enable_flag(Cur, flag))

OwnerDisableFlag ==
    \E flag \in OwnerFlags :
        /\ call' = CallX("disable", flag)
        /\ Commit(disable_flag(Cur, flag))

\* DLAB clear at the start; Interrupt Enable may hold reserved bits
InitOwner ==
    /\ lcr \in {3, 127}
    /\ ier = 192
    /\ lsr \in {96, 97}
    /\ rbr = 65
    /\ dll = 0 /\ dlh = 0 /\ thr = 0
    /\ iir = 1 /\ fcr = 0 /\ mcr = 0 /\ msr = 0 /\ scratch = 0
    /\ NotCalled

NextOwner ==
    \/ OwnerInit
    \/ OwnerSetDivisor
    \/ ReadByte
    \/ WriteByte
    \/ OwnerIsFlagEnabled
    \/ OwnerToggleFlag
    \/ OwnerEnableFlag
    \/ OwnerDisableFlag
    \/ SetParity
    \/ SetStopBit
    \/ SetWordLength

SpecOwner == InitOwner /\ [][NextOwner]_vars

\* the access is one of the two divisor writes of set_divisor, which init
\* runs first: the third and fourth accesses of the call
DivisorWriteAt(i) ==
    /\ call.op \in {"set_divisor", "init"}
    /\ i \in {3, 4}
    /\ log[i].k = "w"

\* C15: with a single owner starting from DLAB clear and calling only init,
\* set_divisor (valid arguments), read_byte, write_byte, the IER flag
\* operations, set_parity, set_stop_bit and set_word_length, DLAB is clear
\* between calls, and an access to offset 0 or 1 is made with DLAB set
\* exactly if it is a divisor write inside set_divisor: every data and
\* Interrupt Enable access happens with DLAB clear.
C15_DlabDiscipline ==
    /\ ~Dlab(Cur)
    /\ \A i \in 1..Len(log) :
           log[i].off \in {THR_RBR_DLL, IER_DLH} =>
               (log[i].dlab <=> DivisorWriteAt(i))

\* init after other calls: its divisor writes went out with DLAB set, its
\* Interrupt Enable accesses with DLAB clear, while sleep mode was enabled
\* by an earlier flag operation and a byte had been written
C15_Witness ==
    /\ call.op = "init"
    /\ \E i \in 1..Len(log) : log[i].off = IER_DLH /\ log[i].dlab
    /\ \E i \in 1..Len(log) : log[i].off = IER_DLH /\ ~log[i].dlab
    /\ BitAnd(ier, IER_SM) = IER_SM
    /\ thr = 255


-----------------------------------------------------------------------------
(* The codec after a first set_parity: from any Line Control byte, a       *)
(* set_parity call, then any sequence of the setters, set_divisor, init    *)
(* and the getters.                                                        *)

InitCodec == InitLcr

\* set_parity has been called: the first call made is set_parity
ParityWasSet == call # NoCall

\* the calls that follow the first set_parity
CodecSetStopBit == ParityWasSet /\ SetStopBit

CodecSetWordLength == ParityWasSet /\ SetWordLength

CodecSetDivisor == ParityWasSet /\ OwnerSetDivisor

CodecInit == ParityWasSet /\ OwnerInit

CodecGetParity == ParityWasSet /\ GetParity

CodecGetStopBit == ParityWasSet /\ GetStopBit

CodecGetWordLength == ParityWasSet /\ GetWordLength

NextCodec ==
    \/ SetParity
    \/ CodecSetStopBit
    \/ CodecSetWordLength
    \/ CodecSetDivisor
    \/ CodecInit
    \/ CodecGetParity
    \/ CodecGetStopBit
    \/ CodecGetWordLength

SpecCodec == InitCodec /\ [][NextCodec]_vars

\* C16: from any initial Line Control byte, once set_parity has been called,
\* after any further sequence of set_parity, set_stop_bit, set_word_length,
\* set_divisor and init calls get_parity returns one of the five parity
\* modes and does not reach its failure arm; get_stop_bit returns a value in
\* {1, 2} and get_word_length a value in 5..8 for every Line Control byte.
C16_DecodeNeverFails ==
    /\ ParityWasSet => get_parity(Cur).ret \in {Enum(p) : p \in ParityModes}
    /\ call.op = "get_parity" => ret \in {Enum(p) : p \in ParityModes}
    /\ get_stop_bit(Cur).ret \in {Val(1), Val(2)}
    /\ call.op = "get_stop_bit" => ret \in {Val(1), Val(2)}
    /\ get_word_length(Cur).ret \in {Val(w) : w \in 5..8}
    /\ call.op = "get_word_length" => ret \in {Val(w) : w \in 5..8}

\* get_parity decoding Space after the divisor was programmed, from an
\* initial byte that had bit 6 set
C16_Witness ==
    /\ call.op = "get_parity"
    /\ ret = Enum("Space")
    /\ dll = 1
    /\ BitAnd(lcr, 64) = 64


-----------------------------------------------------------------------------
\* every register but Interrupt Enable
NotIer == <<lcr, dll, dlh, thr, rbr, iir, fcr, mcr, lsr, msr, scratch>>

\* C17: for every prior Interrupt Enable byte and each of the six flags F,
\* enable_F leaves bit F set and disable_F leaves it clear, the other five
\* defined flag bits keep their prior values, a following is_F_enabled
\* returns true after enable and false after disable, and the call makes
\* exactly one read and one full-byte write of offset 1 and touches no
\* other register.
C17_OneFlagOnly ==
    [][call'.op \in {"enable", "disable"} =>
         LET F == call'.x IN
         /\ BitAnd(ier', F) = (IF call'.op = "enable" THEN F ELSE 0)
         /\ BitAnd(ier', IER_ALL - F) = BitAnd(ier, IER_ALL - F)
         /\ is_flag_enabled([Cur EXCEPT !.ier = ier'], F).ret
                = Bool(call'.op = "enable")
         /\ Len(log') = 2
         /\ log'[1] = Access("r", IER_DLH, ier, Cur)
         /\ log'[2] = Access("w", IER_DLH, ier', Cur)
         /\ UNCHANGED NotIer]_vars

\* sleep mode was disabled on a byte with every defined flag set: the other
\* five flags are still set
C17_Witness ==
    /\ call = CallX("disable", IER_SM)
    /\ log[1].v = 63
    /\ ier = 47


-----------------------------------------------------------------------------
\* the machine with Line Control holding v
WithLcr(v) == [Cur EXCEPT !.lcr = v]

\* C18: for every prior Line Control byte and every valid (clock,
\* baud_rate), bits 0-6 of Line Control are the same after set_divisor
\* returns as before it was called, so get_parity, get_stop_bit and
\* get_word_length return the same values; only bit 7 is changed, and it
\* ends clear.
C18_DivisorKeepsProtocol ==
    [][(call'.op = "set_divisor" /\ ret' = Unit) =>
         /\ BitAnd(lcr', 127) = BitAnd(lcr, 127)
         /\ BitAnd(lcr', 128) = 0
         /\ get_parity(WithLcr(lcr')).ret = get_parity(Cur).ret
         /\ get_stop_bit(WithLcr(lcr')).ret = get_stop_bit(Cur).ret
         /\ get_word_length(WithLcr(lcr')).ret = get_word_length(Cur).ret]_vars

\* set_divisor returned on a byte that had every bit set: bits 0-6 are
\* still set and the divisor is programmed
C18_Witness ==
    /\ call.op = "set_divisor"
    /\ ret = Unit
    /\ log[1].v = 255
    /\ lcr = 127
    /\ dll = 1


-----------------------------------------------------------------------------
(* The decoders of the Interrupt Identification register.                  *)

read_iir(m) ==
    LET m1 == RegRead(m, IIR_FCR) IN Returning(m1, Val(RegValue(m, IIR_FCR)))

read_fifo_status(m) ==
    LET m1 == RegRead(m, IIR_FCR)
        f == BitAnd(RegValue(m, IIR_FCR), 192)
    IN  CASE f = 0 -> Returning(m1, Enum("NoFifo"))
          [] f = 64 -> Returning(m1, Enum("Reserved"))
          [] f = 128 -> Returning(m1, Enum("EnabledNoFunction"))
          [] f = 192 -> Returning(m1, Enum("Enabled"))
          [] OTHER -> Returning(m1, Panic)

is_64byte_fifo_enabled(m) ==
    LET m1 == RegRead(m, IIR_FCR)
    IN  Returning(m1, Bool(BitAnd(RegValue(m, IIR_FCR), 32) # 0))

is_interrupt_pending(m) ==
    LET m1 == RegRead(m, IIR_FCR)
    IN  Returning(m1, Bool(BitAnd(RegValue(m, IIR_FCR), 1) = 0))

ReadIir ==
    /\ call' = Call0("read_iir")
    /\ Commit(read_iir(Cur))

ReadFifoStatus ==
    /\ call' = Call0("read_fifo_status")
    /\ Commit(read_fifo_status(Cur))

Is64byteFifoEnabled ==
    /\ call' = Call0("is_64byte_fifo_enabled")
    /\ Commit(is_64byte_fifo_enabled(Cur))

IsInterruptPending ==
    /\ call' = Call0("is_interrupt_pending")
    /\ Commit(is_interrupt_pending(Cur))

\* a caller asking for the interrupt type twice in a row, nothing in between
ReadInterruptTypeTwice ==
    /\ call' = Call0("read_interrupt_type_twice")
    /\ Commit(read_interrupt_type(read_interrupt_type(Cur)))

InitDecode == InitIir

NextDecode ==
    \/ ReadInterruptType
    \/ ReadInterruptTypeTwice
    \/ ReadIir
    \/ ReadFifoStatus
    \/ Is64byteFifoEnabled
    \/ IsInterruptPending

SpecDecode == InitDecode /\ [][NextDecode]_vars

DecodeOps == {"read_interrupt_type", "read_fifo_status",
              "is_64byte_fifo_enabled", "is_interrupt_pending", "read_iir"}

\* every register but Interrupt Identification
NotIir == <<lcr, ier, dll, dlh, thr, rbr, fcr, mcr, lsr, msr, scratch>>

ThreCause == SomeEnum("TransmitterHoldingRegisterEmpty")

\* what each decoder returns for the byte v it read
Decoded(op, v) ==
    CASE op = "read_iir" -> Val(v)
      [] op = "read_fifo_status" ->
           Enum(<<"NoFifo", "Reserved", "EnabledNoFunction", "Enabled">>
                    [(v \div 64) + 1])
      [] op = "is_64byte_fifo_enabled" -> Bool((v \div 32) % 2 = 1)
      [] op = "is_interrupt_pending" -> Bool(v % 2 = 0)
      [] op = "read_interrupt_type" ->
           IF v % 2 = 1 THEN None
           ELSE SomeEnum(<<"ModemStatus", "TransmitterHoldingRegisterEmpty",
                           "ReceivedDataAvailable", "ReceiverLineStatus",
                           "Reserved", "Reserved", "Timeout", "Reserved">>
                             [((v % 16) \div 2) + 1])

\* C19: read_interrupt_type, read_fifo_status, is_64byte_fifo_enabled,
\* is_interrupt_pending and read_iir each perform exactly one read of offset
\* 2 and no write, and derive their whole result from that one value; with a
\* register block in which a read of offset 2 clears a pending
\* transmitter-holding-register-empty cause, read_interrupt_type reports
\* that cause at most once: a second call no longer reports it.
C19_SingleIirRead ==
    [][/\ call'.op \in DecodeOps =>
            /\ log' = <<Access("r", IIR_FCR, iir, Cur)>>
            /\ ret' = Decoded(call'.op, iir)
            /\ UNCHANGED NotIir
       /\ (call.op = "read_interrupt_type" /\ ret = ThreCause
             /\ call'.op = "read_interrupt_type") => ret' # ThreCause
       /\ (call'.op = "read_interrupt_type_twice"
             /\ Decoded("read_interrupt_type", iir) = ThreCause) =>
            /\ Len(log') = 2
            /\ log'[1] = Access("r", IIR_FCR, iir, Cur)
            /\ log'[2].k = "r" /\ log'[2].off = IIR_FCR
            /\ ret' = Decoded("read_interrupt_type", log'[2].v)
            /\ ret' # ThreCause]_vars

\* two calls in a row on a pending transmitter-holding-register-empty cause:
\* the first read found it, the second did not
C19_Witness ==
    /\ call.op = "read_interrupt_type_twice"
    /\ Len(log) = 2
    /\ log[1].v = 194
    /\ Decoded("read_interrupt_type", log[1].v) = ThreCause
    /\ ret = None

====
